---- MODULE Spec2Model ----
(***************************************************************************)
(* Model of the paint canvas of Source.cpp: the shape classes (Circle,     *)
(* Square, FreehandLine), the PaintCanvas event handlers and the menu      *)
(* bindings of MyApp::OnInit.  One action per event handler; every action  *)
(* is the whole handler.                                                   *)
(***************************************************************************)
EXTENDS Integers, Sequences, FiniteSets, TLC

(***************************************************************************)
(* Bounds of the model.                                                    *)
(***************************************************************************)
\* heap cells the canvas may use: one per shape object created with `new`, one
\* per point pushed onto a line's vector
MaxCells == 4

(***************************************************************************)
(* Values.                                                                 *)
(***************************************************************************)
\* wxColor values, as RGB triples
BLACK == <<0, 0, 0>>
WHITE == <<255, 255, 255>>
RED == <<255, 0, 0>>

\* the null pointer
NULL == [kind |-> "nullptr"]

\* positions a wxMouseEvent may carry (event.GetPosition())
Positions == {<<10, 20>>, <<30, 40>>}

\* the values rand() returns, in order; the stream is taken cyclically
RandSource == <<41, 18467>>

\* the colour items of the menu bound in MyApp::OnInit, with the colour each
\* sets; the Green and Blue items run the same lambda as Red with another
\* constant, and Red stands for the three
ColorMenu == {<<"ID_COLOR_RED", RED>>}

VARIABLES
    shapes,         \* std::vector<Shape*> shapes, as the sequence of the objects pointed to
    currentLine,    \* FreehandLine* currentLine: the object pointed to, or NULL
    currentCircle,  \* Circle* currentCircle
    currentSquare,  \* Square* currentSquare
    currentColor,   \* wxColor currentColor
    rainbowMode,    \* bool rainbowMode
    eraserMode,     \* bool eraserMode
    circleMode,     \* bool circleMode
    squareMode,     \* bool squareMode
    shapeSize,      \* int shapeSize
    allocated,      \* heap cells allocated so far: shape objects created with `new`
                    \* and points pushed by AddPoint (nothing is freed before the
                    \* destructor runs)
    randPos,        \* position of rand() in RandSource
    event,          \* the event handled last: the handler that ran and the position it carried
    menuId,         \* id of the menu item selected last ("none" before the first)
    dcCalls,        \* calls the last handler made on its wxPaintDC, in order
    refreshCalls,   \* number of Refresh() calls the last handler made
    opLog,          \* what the last handler did to the document, in program order:
                    \* the member it wrote (shapes, currentLine, currentCircle,
                    \* currentSquare) or "Refresh" for a Refresh() call
    stroke          \* history of the line in progress: rainbowMode at its pointer-down,
                    \* what the last pointer-move on it drew from rand(), the positions
                    \* of its pointer-down and pointer-moves, and whether another
                    \* pointer-down came in between

canvas == <<shapes, currentLine, currentCircle, currentSquare, currentColor,
            rainbowMode, eraserMode, circleMode, squareMode, shapeSize, allocated>>
modes == <<rainbowMode, eraserMode, circleMode, squareMode>>
vars == <<shapes, currentLine, currentCircle, currentSquare, currentColor,
          rainbowMode, eraserMode, circleMode, squareMode, shapeSize, allocated,
          randPos, event, menuId, dcCalls, refreshCalls, opLog, stroke>>

(***************************************************************************)
(* The shape classes.                                                      *)
(***************************************************************************)
\* Circle::Circle(center, radius, color)
Circle(center, radius, color) ==
    [kind |-> "Circle", center |-> center, radius |-> radius, color |-> color]

\* Square::Square(topLeft, sideLength, color)
Square(topLeft, sideLength, color) ==
    [kind |-> "Square", topLeft |-> topLeft, sideLength |-> sideLength, color |-> color]

\* FreehandLine::FreehandLine(color, rainbowMode = false): no points yet
FreehandLine(color, rainbow) ==
    [kind |-> "FreehandLine", points |-> <<>>, color |-> color, rainbowMode |-> rainbow]

\* FreehandLine::AddPoint
AddPoint(line, point) == [line EXCEPT !.points = Append(@, point)]

\* Circle::Draw: the calls made on the device context
CircleDraw(c) ==
    << [op |-> "SetBrush", color |-> c.color],
       [op |-> "DrawCircle", center |-> c.center, radius |-> c.radius] >>

\* Square::Draw
SquareDraw(s) ==
    << [op |-> "SetBrush", color |-> s.color],
       [op |-> "DrawRectangle", topLeft |-> s.topLeft,
        size |-> <<s.sideLength, s.sideLength>>] >>

\* FreehandLine::Draw: the pen is always set, the polyline drawn for 2 points or more
FreehandLineDraw(l) ==
    << [op |-> "SetPen", color |-> l.color, width |-> 2] >>
    \o (IF Len(l.points) > 1
        THEN << [op |-> "DrawLines", n |-> Len(l.points), points |-> l.points] >>
        ELSE << >>)

\* shape->Draw(dc): virtual dispatch on the dynamic type
Draw(shape) ==
    CASE shape.kind = "Circle" -> CircleDraw(shape)
      [] shape.kind = "Square" -> SquareDraw(shape)
      [] shape.kind = "FreehandLine" -> FreehandLineDraw(shape)

\* rand(): the value at position pos of the stream
rand(pos) == RandSource[(pos % Len(RandSource)) + 1]

\* The colours wxColor(rand() % 256, rand() % 256, rand() % 256) can be when rand()
\* is at position pos: the three calls are unsequenced, so the three values drawn
\* reach the channels in any order.
RandomColors(pos) ==
    LET d == [i \in 0..2 |-> rand(pos + i) % 256]
    IN  { <<d[p[1]], d[p[2]], d[p[3]]>> :
            p \in { q \in [1..3 -> 0..2] : \A i, j \in 1..3 : i # j => q[i] # q[j] } }

\* UpdateRainbowColor without the test of the line's rainbow flag
UpdateRainbowColorAlways(line, c) == [line EXCEPT !.color = c]

\* FreehandLine::UpdateRainbowColor, c being the colour it draws if it draws one
UpdateRainbowColor(line, c) ==
    IF line.rainbowMode THEN [line EXCEPT !.color = c] ELSE line

\* history of a stroke: what the last pointer-move on the line in progress did
NoMove == [kind |-> "NoMove"]
NoDraw == [kind |-> "NoDraw"]
Drew(c) == [kind |-> "Drew", color |-> c]
NoStroke == [rainbow |-> FALSE, lastMove |-> NoMove, path |-> <<>>, interrupted |-> FALSE]

Init ==
    /\ shapes = <<>>
    /\ currentLine = NULL
    /\ currentCircle = NULL
    /\ currentSquare = NULL
    /\ currentColor = BLACK
    /\ rainbowMode = FALSE
    /\ eraserMode = FALSE
    /\ circleMode = FALSE
    /\ squareMode = FALSE
    /\ shapeSize = 50
    /\ allocated = 0
    /\ randPos = 0
    /\ event = [handler |-> "none", pos |-> <<>>]
    /\ menuId = "none"
    /\ dcCalls = <<>>
    /\ refreshCalls = 0
    /\ opLog = <<>>
    /\ stroke = NoStroke

(***************************************************************************)
(* PaintCanvas: the pointer and paint handlers.                            *)
(***************************************************************************)
\* what every handler leaves behind besides the canvas fields: the event it
\* handled, the calls it made on a device context, its Refresh() calls
Handled(handler, pos, calls, refreshes) ==
    /\ event' = [handler |-> handler, pos |-> pos]
    /\ dcCalls' = calls
    /\ refreshCalls' = refreshes

\* DrawShapes iterating from the back of the vector
RECURSIVE DrawShapesBackwards(_)
DrawShapesBackwards(list) ==
    IF list = <<>> THEN <<>>
    ELSE Draw(list[Len(list)]) \o DrawShapesBackwards(SubSeq(list, 1, Len(list) - 1))

\* OnPaint, the loop `for (Shape* shape : shapes) shape->Draw(dc)`
RECURSIVE DrawShapes(_)
DrawShapes(list) ==
    IF list = <<>> THEN <<>> ELSE Draw(Head(list)) \o DrawShapes(Tail(list))

\* OnPaint, `if (p) p->Draw(dc)`
DrawIfSet(p) == IF p # NULL THEN Draw(p) ELSE <<>>

\* the calls OnPaint makes on its wxPaintDC
PaintCalls ==
    DrawShapes(shapes) \o DrawIfSet(currentLine)
        \o DrawIfSet(currentCircle) \o DrawIfSet(currentSquare)

OnPaint ==
    /\ Handled("OnPaint", <<>>, PaintCalls, 0)
    /\ opLog' = <<>>
    /\ UNCHANGED <<canvas, randPos, menuId, stroke>>

\* LeftDownBranch stamping in the default colour instead of currentColor
LeftDownBranchDefaultColor(pos) ==
    IF circleMode
    THEN [shapes |-> Append(shapes, Circle(pos, shapeSize, BLACK)),
          line |-> currentLine, refreshes |-> 1]
    ELSE IF squareMode
    THEN [shapes |-> Append(shapes, Square(pos, shapeSize, BLACK)),
          line |-> currentLine, refreshes |-> 1]
    ELSE IF eraserMode
    THEN [shapes |-> shapes, line |-> FreehandLine(WHITE, FALSE), refreshes |-> 0]
    ELSE [shapes |-> shapes, line |-> FreehandLine(currentColor, rainbowMode),
          refreshes |-> 0]

\* OnLeftDown, the first branch that applies: the shapes list, currentLine, and
\* the number of Refresh() calls of the branch
LeftDownBranch(pos) ==
    IF circleMode
    THEN [shapes |-> Append(shapes, Circle(pos, shapeSize, currentColor)),
          line |-> currentLine, refreshes |-> 1]
    ELSE IF squareMode
    THEN [shapes |-> Append(shapes, Square(pos, shapeSize, currentColor)),
          line |-> currentLine, refreshes |-> 1]
    ELSE IF eraserMode
    THEN [shapes |-> shapes, line |-> FreehandLine(WHITE, FALSE), refreshes |-> 0]
    ELSE [shapes |-> shapes, line |-> FreehandLine(currentColor, rainbowMode),
          refreshes |-> 0]

\* LeftDownAddPoint without the AddPoint call
LeftDownNoPoint(line, pos) == line

\* OnLeftDown, `if (currentLine) currentLine->AddPoint(event.GetPosition())`
LeftDownAddPoint(line, pos) == IF line # NULL THEN AddPoint(line, pos) ELSE line

\* LeftDownLog with Refresh() called in the stamp branches only
LeftDownLogNoFinalRefresh(pos) ==
    (IF circleMode THEN <<"currentCircle", "shapes", "currentCircle", "Refresh">>
     ELSE IF squareMode THEN <<"currentSquare", "shapes", "currentSquare", "Refresh">>
     ELSE <<"currentLine">>)
    \o (IF LeftDownBranch(pos).line # NULL THEN <<"currentLine">> ELSE <<>>)

\* OnLeftDown, its writes and Refresh() calls in program order
LeftDownLog(pos) ==
    (IF circleMode THEN <<"currentCircle", "shapes", "currentCircle", "Refresh">>
     ELSE IF squareMode THEN <<"currentSquare", "shapes", "currentSquare", "Refresh">>
     ELSE <<"currentLine">>)
    \o (IF LeftDownBranch(pos).line # NULL THEN <<"currentLine">> ELSE <<>>)
    \o <<"Refresh">>

OnLeftDown(pos) ==
    LET b == LeftDownBranch(pos)
        stamp == circleMode \/ squareMode
        cells == IF b.line # NULL THEN 2 ELSE 1
    IN  /\ allocated + cells <= MaxCells
        /\ shapes' = b.shapes
        /\ currentLine' = LeftDownAddPoint(b.line, pos)
        /\ allocated' = allocated + cells
        /\ stroke' = IF stamp
                      THEN [stroke EXCEPT !.interrupted = (currentLine # NULL)]
                      ELSE [rainbow |-> rainbowMode, lastMove |-> NoMove,
                            path |-> <<pos>>, interrupted |-> FALSE]
        /\ Handled("OnLeftDown", pos, <<>>, b.refreshes + 1)
        /\ opLog' = LeftDownLog(pos)
        /\ UNCHANGED <<currentCircle, currentSquare, currentColor, modes, shapeSize,
                       randPos, menuId>>

\* LeftUpCommit without the AddPoint call
LeftUpCommitNoPoint(pos) == Append(shapes, currentLine)

\* LeftUpCommit without the push_back
LeftUpNoCommit(pos) == shapes

\* LeftUpCommit inserting the line at the front of the vector
LeftUpCommitFront(pos) == <<AddPoint(currentLine, pos)>> \o shapes

\* OnLeftUp, the body of `if (currentLine)`: the shapes list after it
LeftUpCommit(pos) == Append(shapes, AddPoint(currentLine, pos))

\* OnLeftUp, its writes and Refresh() calls in program order
LeftUpLog ==
    (IF currentLine # NULL THEN <<"currentLine", "shapes", "currentLine">> ELSE <<>>)
    \o <<"Refresh">>

OnLeftUp(pos) ==
    /\ IF currentLine # NULL
       THEN /\ allocated < MaxCells
            /\ shapes' = LeftUpCommit(pos)
            /\ currentLine' = NULL
            /\ allocated' = allocated + 1
            /\ stroke' = NoStroke
       ELSE UNCHANGED <<shapes, currentLine, allocated, stroke>>
    /\ Handled("OnLeftUp", pos, <<>>, 1)
    /\ opLog' = LeftUpLog
    /\ UNCHANGED <<currentCircle, currentSquare, currentColor, modes, shapeSize,
                   randPos, menuId>>

\* MoveLine without the AddPoint call
MoveLineNoPoint(pos, c) ==
    IF rainbowMode THEN UpdateRainbowColor(currentLine, c) ELSE currentLine

\* OnMouseMove, the body of `if (currentLine)`: the line after it, c being the
\* colour UpdateRainbowColor draws if it draws one (rand() is reached only with
\* rainbowMode set on the canvas and on the line)
MoveLine(pos, c) ==
    AddPoint(IF rainbowMode THEN UpdateRainbowColor(currentLine, c) ELSE currentLine,
             pos)

\* MoveLog with the Refresh() call after the `if`, as OnLeftUp has it
MoveLogRefreshOutside ==
    (IF currentLine # NULL
     THEN (IF rainbowMode /\ currentLine.rainbowMode THEN <<"currentLine">> ELSE <<>>)
          \o <<"currentLine">>
     ELSE <<>>)
    \o <<"Refresh">>

\* OnMouseMove, its writes and Refresh() calls in program order
MoveLog ==
    IF currentLine # NULL
    THEN (IF rainbowMode /\ currentLine.rainbowMode THEN <<"currentLine">> ELSE <<>>)
         \o <<"currentLine", "Refresh">>
    ELSE <<>>

OnMouseMove(pos) ==
    IF currentLine # NULL
    THEN LET draws == rainbowMode /\ currentLine.rainbowMode
         IN  /\ allocated < MaxCells
             /\ \E c \in RandomColors(randPos) :
                    /\ currentLine' = MoveLine(pos, c)
                    /\ stroke' = [stroke EXCEPT !.lastMove =
                                     IF draws THEN Drew(c) ELSE NoDraw,
                                                !.path = Append(@, pos)]
             /\ allocated' = allocated + 1
             /\ randPos' = IF draws THEN (randPos + 3) % Len(RandSource) ELSE randPos
             /\ Handled("OnMouseMove", pos, <<>>, 1)
             /\ opLog' = MoveLog
             /\ UNCHANGED <<shapes, currentCircle, currentSquare, currentColor, modes,
                            shapeSize, menuId>>
    ELSE /\ Handled("OnMouseMove", pos, <<>>, 0)
         /\ opLog' = MoveLog
         /\ UNCHANGED <<canvas, randPos, menuId, stroke>>

(***************************************************************************)
(* PaintCanvas: the mode-setting operations.                               *)
(***************************************************************************)
SetColor(color) ==
    /\ currentColor' = color
    /\ eraserMode' = FALSE
    /\ rainbowMode' = FALSE
    /\ circleMode' = FALSE
    /\ squareMode' = FALSE

EnableRainbowMode ==
    /\ rainbowMode' = TRUE
    /\ circleMode' = FALSE
    /\ squareMode' = FALSE
    /\ UNCHANGED <<currentColor, eraserMode>>

\* EnableEraserMode erasing by selecting white as the current colour
EnableEraserModeWhite ==
    /\ eraserMode' = TRUE
    /\ circleMode' = FALSE
    /\ squareMode' = FALSE
    /\ currentColor' = WHITE
    /\ UNCHANGED rainbowMode

EnableEraserMode ==
    /\ eraserMode' = TRUE
    /\ circleMode' = FALSE
    /\ squareMode' = FALSE
    /\ UNCHANGED <<currentColor, rainbowMode>>

EnableCircleMode ==
    /\ circleMode' = TRUE
    /\ eraserMode' = FALSE
    /\ rainbowMode' = FALSE
    /\ squareMode' = FALSE
    /\ UNCHANGED currentColor

EnableSquareMode ==
    /\ squareMode' = TRUE
    /\ eraserMode' = FALSE
    /\ rainbowMode' = FALSE
    /\ circleMode' = FALSE
    /\ UNCHANGED currentColor

(***************************************************************************)
(* MyApp::OnInit: the menu bindings.  Selecting a menu item runs its       *)
(* lambda, which calls one mode-setting operation of the canvas.           *)
(***************************************************************************)
\* what a menu handler leaves alone
MenuFrame(id, handler) ==
    /\ menuId' = id
    /\ Handled(handler, <<>>, <<>>, 0)
    /\ opLog' = <<>>
    /\ UNCHANGED <<shapes, currentLine, currentCircle, currentSquare, shapeSize,
                   allocated, randPos, stroke>>

MenuColor(item) == SetColor(item[2]) /\ MenuFrame(item[1], "SetColor")
MenuRainbow == EnableRainbowMode /\ MenuFrame("ID_MODE_RAINBOW", "EnableRainbowMode")
MenuEraser == EnableEraserMode /\ MenuFrame("ID_MODE_ERASER", "EnableEraserMode")
MenuCircle == EnableCircleMode /\ MenuFrame("ID_MODE_CIRCLE", "EnableCircleMode")
MenuSquare == EnableSquareMode /\ MenuFrame("ID_MODE_SQUARE", "EnableSquareMode")

Next ==
    \/ OnPaint
    \/ \E pos \in Positions : OnLeftDown(pos)
    \/ \E pos \in Positions : OnLeftUp(pos)
    \/ \E pos \in Positions : OnMouseMove(pos)
    \/ \E item \in ColorMenu : MenuColor(item)
    \/ MenuRainbow
    \/ MenuEraser
    \/ MenuCircle
    \/ MenuSquare

Spec == Init /\ [][Next]_vars

(***************************************************************************)
(* The claims.  A step of a handler is a step that leaves that handler's   *)
(* name in event'; the unprimed variables of such a step are the state     *)
(* the handler was entered in.                                             *)
(***************************************************************************)
\* number of mode flags set
ModesSet ==
    Cardinality({i \in 1..4 : <<rainbowMode, eraserMode, circleMode, squareMode>>[i]})

\* C1: the draw-mode flags are mutually exclusive: in every reachable state at
\* most one of rainbowMode, eraserMode, circleMode, squareMode is set, and a
\* state left by a mode-setting operation has every flag other than that
\* operation's own cleared.
C1_ModesExclusive ==
    /\ ModesSet <= 1
    /\ event.handler = "SetColor" => ModesSet = 0
    /\ event.handler = "EnableRainbowMode" => ~eraserMode /\ ~circleMode /\ ~squareMode
    /\ event.handler = "EnableEraserMode" => ~rainbowMode /\ ~circleMode /\ ~squareMode
    /\ event.handler = "EnableCircleMode" => ~rainbowMode /\ ~eraserMode /\ ~squareMode
    /\ event.handler = "EnableSquareMode" => ~rainbowMode /\ ~eraserMode /\ ~circleMode

\* C2 as stated: every pointer-up leaves exactly one more committed shape in
\* the shapes list than there was before it, and leaves currentLine null.
C2_EveryPointerUpCommits ==
    [][event'.handler = "OnLeftUp"
         => Len(shapes') = Len(shapes) + 1 /\ currentLine' = NULL]_vars

\* C2 as amended: every pointer-up leaves currentLine null; it leaves exactly one
\* more committed shape in the shapes list when a line was in progress before
\* it, and the same shapes list when none was.
C2_PointerUpCommitsLineInProgress ==
    [][event'.handler = "OnLeftUp"
         => /\ currentLine' = NULL
            /\ currentLine # NULL => Len(shapes') = Len(shapes) + 1
            /\ currentLine = NULL => shapes' = shapes]_vars

\* a pointer-up has just committed a line in progress, after an earlier shape
C2_Witness ==
    /\ event.handler = "OnLeftUp"
    /\ currentLine = NULL
    /\ Len(shapes) = 2
    /\ shapes[2].kind = "FreehandLine"
    /\ shapes[2].points[Len(shapes[2].points)] = event.pos

\* the objects a redraw has to render, in order: the committed shapes as they
\* were appended, then the line in progress
Rendered == shapes \o (IF currentLine # NULL THEN <<currentLine>> ELSE <<>>)

\* number of device-context calls the first n objects of Rendered take
RECURSIVE CallsOfFirst(_)
CallsOfFirst(n) == IF n = 0 THEN 0 ELSE CallsOfFirst(n - 1) + Len(Draw(Rendered[n]))

\* C3: the calls a redraw leaves on the device context are, for each committed
\* shape in the order of the shapes list and then for the line in progress if
\* there is one, exactly the calls of that object's Draw, once each and with
\* nothing else between or after them, whatever the modes and colour are now.
C3_RedrawInInsertionOrder ==
    event.handler = "OnPaint"
      => /\ Len(dcCalls) = CallsOfFirst(Len(Rendered))
         /\ \A i \in 1..Len(Rendered) :
               SubSeq(dcCalls, CallsOfFirst(i - 1) + 1, CallsOfFirst(i)) = Draw(Rendered[i])

\* a redraw of two different committed shapes and a line in progress, the modes
\* having changed since the shapes were committed
C3_Witness ==
    /\ event.handler = "OnPaint"
    /\ Len(shapes) = 2
    /\ shapes[1].kind = "Circle"
    /\ shapes[2].kind = "Square"
    /\ currentLine # NULL
    /\ ~circleMode /\ ~squareMode
    /\ Len(dcCalls) = 5

\* C4: a pointer-down at a position while circleMode (resp. squareMode) is set
\* appends exactly one shape to the end of the shapes list, a Circle with that
\* center and radius 50 (resp. a Square with that top-left corner and side 50)
\* in the canvas's current colour; shapeSize is 50 in every reachable state.
C4_StampAppendsShape ==
    /\ [][event'.handler = "OnLeftDown" /\ (circleMode \/ squareMode)
            => shapes' = Append(shapes,
                 IF circleMode
                 THEN [kind |-> "Circle", center |-> event'.pos, radius |-> 50,
                       color |-> currentColor]
                 ELSE [kind |-> "Square", topLeft |-> event'.pos, sideLength |-> 50,
                       color |-> currentColor])]_vars
    /\ [](shapeSize = 50)

\* a square has just been stamped in a selected colour after a circle
C4_Witness ==
    /\ event.handler = "OnLeftDown"
    /\ squareMode
    /\ currentColor = RED
    /\ Len(shapes) = 2
    /\ shapes[1].kind = "Circle"
    /\ shapes[2] = [kind |-> "Square", topLeft |-> event.pos, sideLength |-> 50,
                    color |-> RED]

\* C5: a pointer-down in a stamp mode leaves currentLine as it was: null stays
\* null, a line in progress keeps its points and colour.
C5_StampLeavesLineInProgress ==
    [][event'.handler = "OnLeftDown" /\ (circleMode \/ squareMode)
         => currentLine' = currentLine]_vars

\* C6: a freehand gesture begun with rainbow mode selected, with at least one
\* pointer-move before its release and rainbow mode still the mode selected at
\* the release, commits a line whose colour is the value the random source
\* produced at the last of those pointer-moves.
C6_RainbowLineTakesLastDraw ==
    [][(/\ event'.handler = "OnLeftUp"
        /\ currentLine # NULL
        /\ stroke.rainbow
        /\ menuId = "ID_MODE_RAINBOW"
        /\ stroke.lastMove # NoMove)
         => /\ stroke.lastMove.kind = "Drew"
            /\ shapes'[Len(shapes')].color = stroke.lastMove.color]_vars

\* C7: every step leaves the shapes list as it was or longer, the shapes it
\* held before the step being its prefix unchanged: same order, same geometry,
\* same points, same colours.
C7_ShapesAppendOnly ==
    [][/\ Len(shapes') >= Len(shapes)
       /\ SubSeq(shapes', 1, Len(shapes)) = shapes]_vars

\* a committed line drawn in the default colour is followed by a later shape,
\* the colour having been changed and the canvas redrawn since
C7_Witness ==
    /\ Len(shapes) = 2
    /\ shapes[1].kind = "FreehandLine"
    /\ shapes[1].color = BLACK
    /\ currentColor = RED
    /\ event.handler = "OnPaint"

\* heap cells of a shape: the object and, for a line, its points
Cells(shape) == IF shape.kind = "FreehandLine" THEN 1 + Len(shape.points) ELSE 1

\* heap cells the canvas still points to
RECURSIVE CellsHeld(_)
CellsHeld(n) == IF n = 0 THEN 0 ELSE CellsHeld(n - 1) + Cells(Rendered[n])

\* C8: no line in progress is ever replaced or cleared without being appended
\* to the shapes list: every shape object allocated and every point added is
\* still held by the shapes list or by currentLine.
C8_NoStrokeLost == allocated = CellsHeld(Len(Rendered))

\* C9: when the menu item selected last is the rainbow brush, whatever was
\* selected before it, a pointer-down creates a line in the current colour
\* with the rainbow flag set; when it is the eraser, a pointer-down creates a
\* white line, and a pointer-move never changes that line's colour.
C9_LastSelectedModeDecidesStroke ==
    /\ [][event'.handler = "OnLeftDown" /\ menuId = "ID_MODE_RAINBOW"
            => currentLine' = [kind |-> "FreehandLine", points |-> <<event'.pos>>,
                               color |-> currentColor, rainbowMode |-> TRUE]]_vars
    /\ [][event'.handler = "OnLeftDown" /\ menuId = "ID_MODE_ERASER"
            => currentLine' = [kind |-> "FreehandLine", points |-> <<event'.pos>>,
                               color |-> WHITE, rainbowMode |-> FALSE]]_vars
    /\ [][(/\ event'.handler = "OnMouseMove"
           /\ currentLine # NULL
           /\ ~currentLine.rainbowMode)
            => currentLine'.color = currentLine.color]_vars

\* C10: a pointer-down with neither circleMode nor squareMode set leaves a line
\* in progress that holds exactly one point, the position of the pointer-down,
\* in white when eraserMode is set and in the current colour otherwise, and
\* leaves the shapes list as it was.
C10_FreehandDownStartsLine ==
    [][event'.handler = "OnLeftDown" /\ ~circleMode /\ ~squareMode
         => /\ currentLine' # NULL
            /\ currentLine'.kind = "FreehandLine"
            /\ currentLine'.points = <<event'.pos>>
            /\ currentLine'.color = (IF eraserMode THEN WHITE ELSE currentColor)
            /\ shapes' = shapes]_vars

\* a pointer-down has just started an eraser line, a shape being committed
\* already and a colour selected
C10_Witness ==
    /\ event.handler = "OnLeftDown"
    /\ eraserMode /\ ~circleMode /\ ~squareMode
    /\ currentColor = RED
    /\ Len(shapes) >= 1
    /\ currentLine # NULL
    /\ currentLine.points = <<event.pos>>
    /\ currentLine.color = WHITE

\* C11: with no line in progress a pointer-move changes neither the shapes
\* list, currentLine, the current colour nor any mode flag and requests no
\* redraw, and a pointer-up changes neither the shapes list, currentLine, the
\* current colour nor any mode flag.
C11_IdleMoveAndUpAreNoOps ==
    [][/\ (event'.handler = "OnMouseMove" /\ currentLine = NULL)
            => /\ UNCHANGED <<shapes, currentLine, currentColor, modes>>
               /\ refreshCalls' = 0
               /\ \A i \in 1..Len(opLog') : opLog'[i] # "Refresh"
       /\ (event'.handler = "OnLeftUp" /\ currentLine = NULL)
            => UNCHANGED <<shapes, currentLine, currentColor, modes>>]_vars

\* a pointer-move has just been handled with no line in progress, a shape being
\* committed and a mode selected
C11_Witness ==
    /\ event.handler = "OnMouseMove"
    /\ currentLine = NULL
    /\ shapes # <<>>
    /\ ModesSet = 1
    /\ refreshCalls = 0

\* C12: a gesture of one pointer-down at p0, pointer-moves at p1..pk and a
\* pointer-up at q, with no other pointer-down in between, commits as the last
\* element of the shapes list a line whose points are p0, p1, ..., pk, q in
\* that order, k+2 points.
C12_CommittedLineFollowsGesture ==
    [][(/\ event'.handler = "OnLeftUp"
        /\ currentLine # NULL
        /\ ~stroke.interrupted)
         => /\ Len(shapes') = Len(shapes) + 1
            /\ shapes'[Len(shapes')].kind = "FreehandLine"
            /\ shapes'[Len(shapes')].points = stroke.path \o <<event'.pos>>
            /\ Len(shapes'[Len(shapes')].points) = Len(stroke.path) + 1]_vars

\* a gesture with a pointer-move away from the pointer-down position has just
\* been committed, a mode having been selected during it
C12_Witness ==
    /\ event.handler = "OnLeftUp"
    /\ Len(shapes) = 1
    /\ shapes[1].kind = "FreehandLine"
    /\ Len(shapes[1].points) = 3
    /\ shapes[1].points[1] # shapes[1].points[2]
    /\ shapes[1].points[3] = event.pos
    /\ shapes[1].color = BLACK
    /\ eraserMode

\* C13: every pointer-down, every pointer-up, and every pointer-move with a
\* line in progress calls Refresh(), and its last Refresh() call comes after
\* its last write to the shapes list or the line in progress; so does every
\* pointer event that changes the shapes list or the line in progress.
C13_MutationsAreFollowedByRefresh ==
    [][(/\ event'.handler \in {"OnLeftDown", "OnLeftUp", "OnMouseMove"}
        /\ \/ event'.handler \in {"OnLeftDown", "OnLeftUp"}
           \/ currentLine # NULL
           \/ shapes' # shapes
           \/ currentLine' # currentLine)
         => /\ refreshCalls' >= 1
            /\ opLog' # <<>>
            /\ opLog'[Len(opLog')] = "Refresh"]_vars

\* a pointer-down has just stamped a circle and extended the line in progress,
\* with a Refresh() call after each
C13_Witness ==
    /\ event.handler = "OnLeftDown"
    /\ circleMode
    /\ currentLine # NULL
    /\ Len(currentLine.points) = 2
    /\ shapes # <<>>
    /\ refreshCalls = 2
    /\ SubSeq(opLog, Len(opLog) - 2, Len(opLog)) = <<"Refresh", "currentLine", "Refresh">>

\* the committed shapes that are freehand lines, by index
CommittedLines == {i \in 1..Len(shapes) : shapes[i].kind = "FreehandLine"}

\* C14: every FreehandLine in the shapes list has at least two points and a
\* line in progress has at least one; so a redraw issues a polyline call for
\* every committed line, never only the pen selection of the single-point case.
C14_CommittedLinesHaveTwoPoints ==
    /\ \A i \in CommittedLines : Len(shapes[i].points) >= 2
    /\ currentLine # NULL => Len(currentLine.points) >= 1
    /\ event.handler = "OnPaint"
         => Cardinality({j \in 1..Len(dcCalls) : dcCalls[j].op = "DrawLines"})
              = Cardinality(CommittedLines)
                + (IF currentLine # NULL /\ Len(currentLine.points) >= 2 THEN 1 ELSE 0)

\* a tap, committed as a line of two points, has been redrawn as a polyline of
\* two points
C14_Witness ==
    /\ event.handler = "OnPaint"
    /\ Len(shapes) = 1
    /\ shapes[1].kind = "FreehandLine"
    /\ Len(shapes[1].points) = 2
    /\ stroke = NoStroke
    /\ dcCalls = << [op |-> "SetPen", color |-> shapes[1].color, width |-> 2],
                    [op |-> "DrawLines", n |-> 2, points |-> shapes[1].points] >>

\* the mode-setting operations of the canvas
ModeSetters ==
    {"SetColor", "EnableRainbowMode", "EnableEraserMode", "EnableCircleMode",
     "EnableSquareMode"}

\* C15: the mode-setting operations leave the shapes list and the line in
\* progress (points, colour, rainbow flag) as they were; the current colour is
\* changed by SetColor only, to the colour of the menu item selected, never by
\* enabling a mode nor by a pointer event or a redraw.
C15_ModeSettersTouchOnlyModeState ==
    [][/\ event'.handler \in ModeSetters
            => shapes' = shapes /\ currentLine' = currentLine
       /\ currentColor' # currentColor => event'.handler = "SetColor"
       /\ event'.handler = "SetColor"
            => \E item \in ColorMenu : menuId' = item[1] /\ currentColor' = item[2]]_vars

\* the eraser has just been enabled with a colour selected, a shape committed
\* and a line in progress
C15_Witness ==
    /\ event.handler = "EnableEraserMode"
    /\ eraserMode
    /\ currentColor = RED
    /\ shapes # <<>>
    /\ currentLine # NULL
    /\ currentLine.color = RED

\* a step that keeps working on the line in progress, not one that starts another
SameLineStep ==
    /\ currentLine # NULL
    /\ ~(event'.handler = "OnLeftDown" /\ ~circleMode /\ ~squareMode)

\* C16: the colour of a line in progress changes only in a pointer-move that
\* finds rainbowMode set on the canvas and the rainbow flag set on the line,
\* the flag being as the line was created; the line is committed in the colour
\* it then has.  So a line created in normal or eraser mode keeps its colour
\* when rainbow mode is enabled during the gesture, and a rainbow line keeps
\* its colour once rainbowMode is cleared.
C16_LineColourChangesOnlyOnRainbowMove ==
    [][SameLineStep
         => /\ currentLine' # NULL
                 => /\ currentLine'.rainbowMode = currentLine.rainbowMode
                    /\ currentLine'.color # currentLine.color
                         => /\ event'.handler = "OnMouseMove"
                            /\ rainbowMode
                            /\ currentLine.rainbowMode
            /\ currentLine' = NULL
                 => /\ event'.handler = "OnLeftUp"
                    /\ shapes'[Len(shapes')].color = currentLine.color
                    /\ shapes'[Len(shapes')].rainbowMode = currentLine.rainbowMode]_vars

\* a rainbow line that took a drawn colour on one pointer-move has kept it on
\* the next, rainbowMode having been cleared in between
C16_Witness ==
    /\ event.handler = "OnMouseMove"
    /\ currentLine # NULL
    /\ currentLine.rainbowMode
    /\ ~rainbowMode
    /\ stroke.lastMove = NoDraw
    /\ Len(currentLine.points) = 3
    /\ currentLine.color \notin {BLACK, WHITE, RED}

====
